---------------------------- MODULE Spec2Model ----------------------------
(***************************************************************************)
(* ElGamal (src/elgamal.py) and Rabin (src/rabin.py) digital signatures.   *)
(*                                                                         *)
(* Every function of the two files is a pure function over Python's        *)
(* unbounded integers.  Each is an operator that computes what the code    *)
(* computes and yields an outcome: a returned value or a raised exception. *)
(* The state machine is a caller that invokes the functions on inputs      *)
(* drawn from bounded sets and records the call and its outcome, or runs   *)
(* one of the two interactive programs (main of elgamal.py, the menu loop  *)
(* of rabin.py) from one input() to the next on entries drawn from bounded *)
(* sets.                                                                   *)
(*                                                                         *)
(* A message is represented by its SHA-256 digest (a natural number): the  *)
(* code reads a message only through hash_message.  State variables keep   *)
(* one type each: integer results are tuples (ret), booleans are valid.    *)
(* Builtin pow(b, e, m) follows Python >= 3.8 (a negative exponent inverts *)
(* the base modulo m, ValueError when it has no inverse).                  *)
(***************************************************************************)
EXTENDS Integers, Sequences, FiniteSets, TLC

VARIABLES
    fn,       \* the function the caller invoked last ("none" before any call)
    pc,       \* position in it: "idle", a line label, "returned" or "raised"
    args,     \* its arguments, in the order of the Python signature
    loc,      \* its local variables computed so far (a program's variables)
    ret,      \* the integers it returned, as a tuple (when pc = "returned")
    valid,    \* the boolean a verification returned (when pc = "returned")
    exc,      \* the exception it raised ("none" unless pc = "raised")
    pows,     \* modular exponentiations sign_message has performed so far
    signed    \* the signing call whose result is being verified, or NoSigning

vars == <<fn, pc, args, loc, ret, valid, exc, pows, signed>>

---------------------------------------------------------------------------
(* Bounds of the model. *)

\* malformed verification inputs are the integers -MaxInt..MaxInt, arguments of
\* extended_gcd and mod_inverse the integers -3*MaxInt..3*MaxInt
MaxInt == 4
\* ElGamal primes p are the primes up to MaxPrime (and the scenario prime)
MaxPrime == 7
\* Rabin primes are the primes congruent to 3 mod 4 up to MaxBlum
MaxBlum == 11
\* digests run from 0 to the modulus plus MaxDigest, so that every residue
\* occurs and the reduction of the digest modulo the modulus matters
MaxDigest == 12
\* key_generation is called with 1 to MaxBits bits
MaxBits == 3

Ints == (-MaxInt)..MaxInt

WideInts == (-(MaxInt + MaxInt + MaxInt))..(MaxInt + MaxInt + MaxInt)

---------------------------------------------------------------------------
(* Python integer arithmetic. *)

NoSigning == [fn |-> "none", args |-> <<>>, ret |-> <<>>]
NoLocals == <<>>

\* a % m for m # 0: the result has the sign of m (floor modulo)
PyMod(a, m) == a - m * (a \div m)

\* a // b for b # 0 (floor division)
PyFloorDiv(a, b) == a \div b

Abs(a) == IF a < 0 THEN -a ELSE a

Min(a, b) == IF a <= b THEN a ELSE b

\* outcomes of a call
Return(v) == [exc |-> "none", val |-> v]
Raise(e) == [exc |-> e, val |-> 0]

ValueError == "ValueError"
ZeroDivisionError == "ZeroDivisionError"
\* raise Exception('Modular inverse does not exist')
NotInvertibleError == "Exception: Modular inverse does not exist"

\* the mathematical greatest common divisor of two integers, non-negative
RECURSIVE GcdNat(_, _)
GcdNat(a, b) == IF b = 0 THEN a ELSE GcdNat(b, a % b)

Gcd(a, b) == GcdNat(Abs(a), Abs(b))

\* b^e mod m for e >= 0 and m # 0, by square and multiply
RECURSIVE ModExp(_, _, _)
ModExp(b, e, m) ==
    IF e = 0 THEN PyMod(1, m)
    ELSE LET half == ModExp(b, e \div 2, m)
             sq == PyMod(half * half, m)
         IN  IF e % 2 = 1 THEN PyMod(sq * b, m) ELSE sq

\* builtin pow(base, exp, mod)
pow(base, exp, mod) ==
    IF mod = 0 THEN Raise(ValueError)
    ELSE IF exp >= 0 THEN Return(ModExp(base, exp, mod))
    ELSE IF Gcd(base, mod) # 1 THEN Raise(ValueError)
    ELSE LET inv == CHOOSE i \in 0..(Abs(mod) - 1) :
                        (base * i - 1) % Abs(mod) = 0
         IN  Return(ModExp(inv, -exp, mod))

\* a digest that ignores the message
hash_messageConstant(message) == 0

\* hash_message(message): the digest of the message
hash_message(message) == message

---------------------------------------------------------------------------
(* src/elgamal.py: arithmetic helpers. *)

RECURSIVE extended_gcd(_, _)
extended_gcd(a, b) ==
    IF a = 0 THEN <<b, 0, 1>>
    ELSE LET rec == extended_gcd(PyMod(b, a), a)
             x == rec[3] - PyFloorDiv(b, a) * rec[2]
             y == rec[2]
         IN  <<rec[1], x, y>>

mod_inverse(a, m) ==
    LET e == extended_gcd(a, m)
    IN  IF e[1] # 1 THEN Raise(NotInvertibleError)
        ELSE IF m = 0 THEN Raise(ZeroDivisionError)
        ELSE Return(PyMod(e[2], m))

---------------------------------------------------------------------------
(* src/elgamal.py: the signature scheme. *)

RECURSIVE TrialDivision(_, _)
TrialDivision(n, i) ==
    IF i * i > n THEN TRUE
    ELSE IF n % i = 0 \/ n % (i + 2) = 0 THEN FALSE
    ELSE TrialDivision(n, i + 6)

is_prime(n) ==
    IF n <= 1 THEN FALSE
    ELSE IF n <= 3 THEN TRUE
    ELSE IF n % 2 = 0 \/ n % 3 = 0 THEN FALSE
    ELSE TrialDivision(n, 5)

generate_keys(p, g, x) == pow(g, x, p)

\* sign_message(message, p, g, x, k) as one call
sign_message(message, p, g, x, k) ==
    LET h == hash_message(message)
        r == pow(g, k, p)
        k_inv == mod_inverse(k, p - 1)
    IN  IF r.exc # "none" THEN r
        ELSE IF k_inv.exc # "none" THEN k_inv
        ELSE Return(<<r.val, PyMod(k_inv.val * (h - x * r.val), p - 1)>>)

\* if r <= 0 or r >= p: return False
RangeRejectsZeroAllowed(r, p) == r < 0 \/ r >= p

RangeRejectsPAllowed(r, p) == r <= 0 \/ r > p

RangeRejects(r, p) == r <= 0 \/ r >= p

verify_signature(message, r, s, p, g, y) ==
    IF RangeRejects(r, p) THEN Return(FALSE)
    ELSE LET h == hash_message(message)
             v1 == pow(g, h, p)
             yr == pow(y, r, p)
             rs == pow(r, s, p)
         IN  IF v1.exc # "none" THEN v1
             ELSE IF yr.exc # "none" THEN yr
             ELSE IF rs.exc # "none" THEN rs
             ELSE Return(v1.val = PyMod(yr.val * rs.val, p))

---------------------------------------------------------------------------
(* src/rabin.py. *)

\* sympy.isprime
isprime(n) == n > 1 /\ \A d \in 2..(n - 1) : n % d # 0

\* sympy.mod_inverse(a, m): the inverse of a modulo m in [0, m), ValueError
\* when there is none
sympy_mod_inverse(a, m) ==
    IF m > 1 /\ Gcd(a, m) = 1
    THEN Return(CHOOSE i \in 0..(m - 1) : (a * i - 1) % m = 0)
    ELSE Raise(ValueError)

\* sympy.nextprime(n): the smallest prime above n
nextprime(n) ==
    CHOOSE k \in (n + 1)..(2 * n + 2) :
        isprime(k) /\ \A j \in (n + 1)..(k - 1) : ~isprime(j)

\* the loop of generate_prime from the current candidate p
RECURSIVE GeneratePrimeLoop(_)
GeneratePrimeLoop(p) ==
    IF ~(p % 4 = 3 /\ isprime(p)) THEN GeneratePrimeLoop(nextprime(p)) ELSE p

\* generate_prime(bits), draw being the value of random.getrandbits(bits)
generate_prime(bits, draw) == GeneratePrimeLoop(draw)

\* key_generation(bits) for the two random draws of its generate_prime calls
key_generation(bits, draw_p, draw_q) ==
    LET p == generate_prime(bits, draw_p)
        q == generate_prime(bits, draw_q)
        n == p * q
    IN  <<n, p, q>>

\* the test of get_valid_prime on an integer entry
GetValidPrimeAccepts(p) == isprime(p) /\ p % 4 = 3

\* a call's outcome together with its local variables
WithLocals(out, l) == [exc |-> out.exc, val |-> out.val, loc |-> l]

\* x = (r_q + q * ((inv_q * (r_p - r_q)) % p)) % n
RabinCrtNoInverse(r_p, r_q, inv_q, p, q, n) ==
    PyMod(r_q + q * PyMod(r_p - r_q, p), n)

RabinCrtSwapped(r_p, r_q, inv_q, p, q, n) ==
    PyMod(r_q + q * PyMod(inv_q * (r_q - r_p), p), n)

RabinCrt(r_p, r_q, inv_q, p, q, n) ==
    PyMod(r_q + q * PyMod(inv_q * (r_p - r_q), p), n)

sign(message, p, q) ==
    LET n == p * q
    IN  IF n = 0 THEN WithLocals(Raise(ZeroDivisionError), NoLocals)
        ELSE
        LET m == PyMod(hash_message(message), n)
            r_p == pow(m, PyFloorDiv(p + 1, 4), p)
            r_q == pow(m, PyFloorDiv(q + 1, 4), q)
            inv_q == sympy_mod_inverse(q, p)
        IN  IF r_p.exc # "none" THEN WithLocals(r_p, NoLocals)
            ELSE IF r_q.exc # "none" THEN WithLocals(r_q, NoLocals)
            ELSE IF inv_q.exc # "none" THEN WithLocals(inv_q, NoLocals)
            ELSE LET x == RabinCrt(r_p.val, r_q.val, inv_q.val, p, q, n)
                     signature == Min(x, n - x)
                 IN  WithLocals(Return(signature),
                                [n |-> n, m |-> m, r_p |-> r_p.val, r_q |-> r_q.val,
                                 inv_q |-> inv_q.val, x |-> x])

\* the combination step of sign on its own: n = p * q,
\* inv_q = mod_inverse(q, p), then x
RabinCombine(r_p, r_q, p, q) ==
    LET inv_q == sympy_mod_inverse(q, p)
    IN  IF inv_q.exc # "none" THEN inv_q
        ELSE Return(<<RabinCrt(r_p, r_q, inv_q.val, p, q, p * q)>>)

\* check = pow(signature, 2, n)
RabinCheckUnreduced(signature, n) == Return(signature * signature)

RabinCheck(signature, n) == pow(signature, 2, n)

\* return check == m or (n - check) == m
verifyFirstDisjunctOnly(message, signature, n) ==
    IF n = 0 THEN Raise(ZeroDivisionError)
    ELSE LET m == PyMod(hash_message(message), n)
             check == RabinCheck(signature, n)
         IN  IF check.exc # "none" THEN check
             ELSE Return(check.val = m)

verify(message, signature, n) ==
    IF n = 0 THEN Raise(ZeroDivisionError)
    ELSE LET m == PyMod(hash_message(message), n)
             check == RabinCheck(signature, n)
         IN  IF check.exc # "none" THEN check
             ELSE Return(check.val = m \/ (n - check.val) = m)

---------------------------------------------------------------------------
(* The caller: one call, or one run of a program, on inputs drawn from bounded sets. *)

\* the concrete ElGamal scenario of the specification: p = 23, g = 5, x = 6
Scenario == [p |-> 23, g |-> 5, x |-> 6]

ElGamalPrimes == {p \in 0..MaxPrime : is_prime(p)}

\* keys satisfying the caller-enforced precondition: p prime, 1 < g < p, 1 < x < p-1
ElGamalKeys ==
    {<<p, g, x>> \in ElGamalPrimes \X (0..MaxPrime) \X (0..MaxPrime) :
        1 < g /\ g < p /\ 1 < x /\ x < p - 1}
    \cup {<<Scenario.p, Scenario.g, Scenario.x>>}

Digests(modulus) == 0..(modulus + MaxDigest)

\* primes congruent to 3 mod 4, as get_valid_prime accepts them
BlumPrimes == {p \in 0..MaxBlum : isprime(p) /\ p % 4 = 3}

\* the primes sign can be handed
Primes == {p \in 0..MaxBlum : isprime(p)}

\* moduli of arbitrary verification calls: small integers and products of two primes
RabinModuli == Ints \cup {p * q : p \in BlumPrimes, q \in BlumPrimes}

Init ==
    /\ fn = "none"
    /\ pc = "idle"
    /\ args = <<>>
    /\ loc = NoLocals
    /\ ret = <<>>
    /\ valid = FALSE
    /\ exc = "none"
    /\ pows = 0
    /\ signed = NoSigning

\* the functions that return a boolean, and those that return one integer
Verifiers == {"verify_signature", "verify"}
Scalars == {"mod_inverse", "generate_keys", "sign"}

\* the caller records the outcome of a call made in one step
Finish(f, a, l, out, sg) ==
    /\ fn' = f
    /\ args' = a
    /\ loc' = l
    /\ pc' = IF out.exc = "none" THEN "returned" ELSE "raised"
    /\ ret' = IF out.exc # "none" \/ f \in Verifiers THEN <<>>
              ELSE IF f \in Scalars THEN <<out.val>>
              ELSE out.val
    /\ valid' = (out.exc = "none" /\ f \in Verifiers /\ out.val)
    /\ exc' = out.exc
    /\ pows' = 0
    /\ signed' = sg

CallExtendedGcd ==
    /\ pc = "idle"
    /\ \E a \in WideInts, b \in WideInts :
          Finish("extended_gcd", <<a, b>>, NoLocals,
                 Return(extended_gcd(a, b)), NoSigning)

CallModInverse ==
    /\ pc = "idle"
    /\ \E a \in WideInts, m \in WideInts :
          Finish("mod_inverse", <<a, m>>, NoLocals, mod_inverse(a, m), NoSigning)

(* sign_message(message, p, g, x, k), statement by statement *)

CallSignMessage ==
    /\ pc = "idle"
    /\ \E key \in ElGamalKeys :
       \E k \in (-1)..key[1], message \in Digests(key[1]) :
          /\ fn' = "sign_message"
          /\ args' = <<message, key[1], key[2], key[3], k>>
    /\ pc' = "L65"
    /\ loc' = NoLocals
    /\ UNCHANGED <<ret, valid, exc, pows, signed>>

\* a statement of sign_message raises
SignRaise(e) ==
    /\ pc' = "raised"
    /\ exc' = e
    /\ UNCHANGED <<fn, args, loc, ret, valid, signed>>

\* h = hash_message(message)
SignHash ==
    /\ fn = "sign_message" /\ pc = "L65"
    /\ loc' = [h |-> hash_message(args[1])]
    /\ pc' = "L68"
    /\ UNCHANGED <<fn, args, ret, valid, exc, pows, signed>>

\* r = pow(g, k, p)
SignPow ==
    /\ fn = "sign_message" /\ pc = "L68"
    /\ pows' = pows + 1
    /\ LET out == pow(args[3], args[5], args[2])
       IN  IF out.exc # "none" THEN SignRaise(out.exc)
           ELSE /\ loc' = [h |-> loc.h, r |-> out.val]
                /\ pc' = "L71"
                /\ UNCHANGED <<fn, args, ret, valid, exc, signed>>

\* k_inv = mod_inverse(k, p-1)
SignInverse ==
    /\ fn = "sign_message" /\ pc = "L71"
    /\ LET out == mod_inverse(args[5], args[2] - 1)
       IN  IF out.exc # "none" THEN SignRaise(out.exc) /\ UNCHANGED pows
           ELSE /\ loc' = [h |-> loc.h, r |-> loc.r, k_inv |-> out.val]
                /\ pc' = "L72"
                /\ UNCHANGED <<fn, args, ret, valid, exc, pows, signed>>

\* s = (k_inv * (h - x * r)) % (p-1)
SignSPlusXr ==
    /\ fn = "sign_message" /\ pc = "L72"
    /\ loc' = [h |-> loc.h, r |-> loc.r, k_inv |-> loc.k_inv,
               s |-> PyMod(loc.k_inv * (loc.h + args[4] * loc.r), args[2] - 1)]
    /\ pc' = "L74"
    /\ UNCHANGED <<fn, args, ret, valid, exc, pows, signed>>

SignSUnreduced ==
    /\ fn = "sign_message" /\ pc = "L72"
    /\ loc' = [h |-> loc.h, r |-> loc.r, k_inv |-> loc.k_inv,
               s |-> loc.k_inv * (loc.h - args[4] * loc.r)]
    /\ pc' = "L74"
    /\ UNCHANGED <<fn, args, ret, valid, exc, pows, signed>>

SignS ==
    /\ fn = "sign_message" /\ pc = "L72"
    /\ loc' = [h |-> loc.h, r |-> loc.r, k_inv |-> loc.k_inv,
               s |-> PyMod(loc.k_inv * (loc.h - args[4] * loc.r), args[2] - 1)]
    /\ pc' = "L74"
    /\ UNCHANGED <<fn, args, ret, valid, exc, pows, signed>>

\* return r, s
SignReturn ==
    /\ fn = "sign_message" /\ pc = "L74"
    /\ ret' = <<loc.r, loc.s>>
    /\ pc' = "returned"
    /\ UNCHANGED <<fn, args, loc, valid, exc, pows, signed>>

\* the signer's public key is derived and the signature just returned is
\* verified against the same message: y = generate_keys(p, g, x), then
\* verify_signature(message, r, s, p, g, y)
VerifyOwnSignature ==
    /\ fn = "sign_message" /\ pc = "returned"
    /\ LET y == generate_keys(args[2], args[3], args[4])
           a == <<args[1], ret[1], ret[2], args[2], args[3], y.val>>
           sg == [fn |-> fn, args |-> args, ret |-> ret]
       IN  IF y.exc # "none"
           THEN Finish("generate_keys", <<args[2], args[3], args[4]>>, NoLocals, y, sg)
           ELSE Finish("verify_signature", a, NoLocals,
                       verify_signature(a[1], a[2], a[3], a[4], a[5], a[6]), sg)

\* the signature just returned is verified against another message:
\* verify_signature(other, r, s, p, g, y) with y = generate_keys(p, g, x)
VerifyOtherMessage ==
    /\ fn = "sign_message" /\ pc = "returned"
    /\ LET y == generate_keys(args[2], args[3], args[4])
           sg == [fn |-> fn, args |-> args, ret |-> ret]
       IN  /\ y.exc = "none"
           /\ \E other \in Digests(args[2]) \ {args[1]} :
                 Finish("verify_signature",
                        <<other, ret[1], ret[2], args[2], args[3], y.val>>, NoLocals,
                        verify_signature(other, ret[1], ret[2], args[2], args[3], y.val),
                        sg)

\* verify_signature on arbitrary, possibly malformed, integers
CallVerifySignature ==
    /\ pc = "idle"
    /\ \E message \in 0..MaxInt, r \in Ints, s \in Ints, p \in Ints,
          g \in Ints, y \in Ints :
          Finish("verify_signature", <<message, r, s, p, g, y>>, NoLocals,
                 verify_signature(message, r, s, p, g, y), NoSigning)

\* sign(message, p, q) with the primes of a generated key
CallRabinSign ==
    /\ pc = "idle"
    /\ \E p \in BlumPrimes, q \in BlumPrimes :
       \E message \in Digests(p * q) :
          LET out == sign(message, p, q)
          IN  Finish("sign", <<message, p, q>>, out.loc, out, NoSigning)

\* the signature just returned, or its complement n - s, is verified against
\* the same message under the public key n = p * q
VerifyOwnRabin ==
    /\ fn = "sign" /\ pc = "returned"
    /\ LET n == args[2] * args[3]
           sg == [fn |-> fn, args |-> args, ret |-> ret]
       IN  \E signature \in {ret[1], n - ret[1]} :
              Finish("verify", <<args[1], signature, n>>, NoLocals,
                     verify(args[1], signature, n), sg)

\* verify on arbitrary, possibly malformed, integers
CallRabinVerify ==
    /\ pc = "idle"
    /\ \E n \in RabinModuli :
       \E message \in 0..(Abs(n) + MaxInt), signature \in (-MaxInt)..(Abs(n) + MaxInt) :
          Finish("verify", <<message, signature, n>>, NoLocals,
                 verify(message, signature, n), NoSigning)

\* the combination step of sign on every pair of roots r_p in [0, p),
\* r_q in [0, q) for primes p, q
CallRabinCombine ==
    /\ pc = "idle"
    /\ \E p \in Primes, q \in Primes :
       \E r_p \in 0..(p - 1), r_q \in 0..(q - 1) :
          Finish("RabinCombine", <<r_p, r_q, p, q>>, NoLocals,
                 RabinCombine(r_p, r_q, p, q), NoSigning)

\* key_generation(bits) for every pair of draws of random.getrandbits(bits)
CallKeyGeneration ==
    /\ pc = "idle"
    /\ \E bits \in 1..MaxBits :
       \E draw_p \in 0..(2^bits - 1), draw_q \in 0..(2^bits - 1) :
          Finish("key_generation", <<bits>>, [draw_p |-> draw_p, draw_q |-> draw_q],
                 Return(key_generation(bits, draw_p, draw_q)), NoSigning)

(* The menu loop of rabin.py, from one input() to the next.  loc holds the
   module's variables n, p, q (defined tells whether n is bound), the local p
   of a key_generation_manual call in progress (kp), the primes the last
   completed key generation returned (gen) and the last operation the loop
   completed (last); args, ret and valid hold the arguments and the result of
   the last call the loop made. *)

MenuEntries == (-1)..MaxBlum
MenuDigests == 0..MaxInt

MenuInit == [defined |-> FALSE, n |-> 0, p |-> 0, q |-> 0, kp |-> 0,
             gen |-> <<>>, last |-> "none"]

AtMenu == fn = "rabin_main" /\ pc = "L82"

\* python rabin.py is started
RunRabinMenu ==
    /\ pc = "idle"
    /\ fn' = "rabin_main"
    /\ pc' = "L82"
    /\ loc' = MenuInit
    /\ UNCHANGED <<args, ret, valid, exc, pows, signed>>

\* choice '1': key_generation_manual() is entered and prompts for p
MenuGenerateKeys ==
    /\ AtMenu
    /\ pc' = "L67"
    /\ UNCHANGED <<fn, args, loc, ret, valid, exc, pows, signed>>

\* p = get_valid_prime("Enter prime p: "): one entry of the user
GetValidPrimeP ==
    /\ fn = "rabin_main" /\ pc = "L67"
    /\ \/ UNCHANGED vars   \* not an integer: ValueError, asked again
       \/ \E entry \in MenuEntries :
             IF GetValidPrimeAccepts(entry)
             THEN /\ loc' = [loc EXCEPT !.kp = entry]
                  /\ pc' = "L68"
                  /\ UNCHANGED <<fn, args, ret, valid, exc, pows, signed>>
             ELSE UNCHANGED vars

\* q = get_valid_prime("Enter prime q: "): one entry of the user; an accepted
\* entry completes key_generation_manual (n = p * q; return n, p, q) and the
\* menu binds n, p, q = key_generation_manual()
GetValidPrimeQ ==
    /\ fn = "rabin_main" /\ pc = "L68"
    /\ \/ UNCHANGED vars   \* not an integer: ValueError, asked again
       \/ \E entry \in MenuEntries :
             IF GetValidPrimeAccepts(entry)
             THEN LET n == loc.kp * entry
                  IN  /\ loc' = [defined |-> TRUE, n |-> n, p |-> loc.kp, q |-> entry,
                                 kp |-> 0, gen |-> <<loc.kp, entry>>, last |-> "keygen"]
                      /\ args' = <<>>
                      /\ ret' = <<n, loc.kp, entry>>
                      /\ valid' = FALSE
                      /\ pc' = "L82"
                      /\ UNCHANGED <<fn, exc, pows, signed>>
             ELSE UNCHANGED vars

\* choice '2' without the test 'n' not in locals()
MenuSignUnguarded ==
    /\ AtMenu
    /\ \E msg \in MenuDigests :
          LET out == sign(msg, loc.p, loc.q)
          IN  /\ loc' = [loc EXCEPT !.last = "sign"]
              /\ args' = <<msg, loc.p, loc.q>>
              /\ ret' = IF out.exc = "none" THEN <<out.val>> ELSE <<>>
              /\ valid' = FALSE
              /\ exc' = out.exc
              /\ pc' = IF out.exc = "none" THEN "L82" ELSE "raised"
              /\ UNCHANGED <<fn, pows, signed>>

\* choice '2': sig = sign(msg, p, q) once keys exist; an exception of sign is
\* not caught and ends the program
MenuSign ==
    /\ AtMenu
    /\ IF ~loc.defined
       THEN UNCHANGED vars   \* "Please generate keys first", continue
       ELSE \E msg \in MenuDigests :
               LET out == sign(msg, loc.p, loc.q)
               IN  /\ loc' = [loc EXCEPT !.last = "sign"]
                   /\ args' = <<msg, loc.p, loc.q>>
                   /\ ret' = IF out.exc = "none" THEN <<out.val>> ELSE <<>>
                   /\ valid' = FALSE
                   /\ exc' = out.exc
                   /\ pc' = IF out.exc = "none" THEN "L82" ELSE "raised"
                   /\ UNCHANGED <<fn, pows, signed>>

\* the signatures a user enters: small integers, and the signature the
\* program printed last or its complement
SignatureEntries ==
    ((-1)..MaxInt)
    \cup (IF loc.last = "sign" THEN {ret[1], loc.n - ret[1]} ELSE {})

\* choice '3': result = verify(msg, sig, n) once keys exist; a ValueError
\* (the entry is not an integer) is caught and reported
MenuVerify ==
    /\ AtMenu
    /\ IF ~loc.defined
       THEN UNCHANGED vars   \* "Please generate keys first", continue
       ELSE \/ UNCHANGED vars   \* "Signature must be an integer."
            \/ \E msg \in MenuDigests, sig \in SignatureEntries :
                  LET out == verify(msg, sig, loc.n)
                  IN  /\ args' = <<msg, sig, loc.n>>
                      /\ ret' = <<>>
                      /\ IF out.exc = "none"
                         THEN /\ loc' = [loc EXCEPT !.last = "verify"]
                              /\ valid' = out.val
                              /\ exc' = "none"
                              /\ pc' = "L82"
                         ELSE IF out.exc = ValueError
                         THEN /\ loc' = [loc EXCEPT !.last = "verify"]
                              /\ valid' = FALSE
                              /\ exc' = "none"
                              /\ pc' = "L82"
                         ELSE /\ loc' = [loc EXCEPT !.last = "verify"]
                              /\ valid' = FALSE
                              /\ exc' = out.exc
                              /\ pc' = "raised"
                      /\ UNCHANGED <<fn, pows, signed>>

\* choice '4': break
MenuExit ==
    /\ AtMenu
    /\ pc' = "exited"
    /\ UNCHANGED <<fn, args, loc, ret, valid, exc, pows, signed>>

\* any other choice: "Invalid option. Try again."
MenuInvalidOption ==
    /\ AtMenu
    /\ UNCHANGED vars

(* main() of elgamal.py, from one input() to the next.  loc holds main's
   local variables (0 while unbound); args, ret and valid hold the arguments
   of its sign_message call, the pair it returned and the result of
   verify_signature. *)

MainEntries == (-1)..(MaxPrime + MaxInt)
MainDigests == 0..MaxInt

MainInit == [p |-> 0, g |-> 0, x |-> 0, y |-> 0, message |-> 0, k |-> 0,
             r |-> 0, s |-> 0]

\* python elgamal.py is started
RunElGamalMain ==
    /\ pc = "idle"
    /\ fn' = "main"
    /\ pc' = "L109"
    /\ loc' = MainInit
    /\ UNCHANGED <<args, ret, valid, exc, pows, signed>>

\* p = int(input(...)); if not is_prime(p): continue; break
MainEnterP ==
    /\ fn = "main" /\ pc = "L109"
    /\ \/ UNCHANGED vars   \* not an integer: ValueError, asked again
       \/ \E entry \in MainEntries :
             /\ loc' = [loc EXCEPT !.p = entry]
             /\ pc' = IF ~is_prime(entry) THEN "L109" ELSE "L120"
             /\ UNCHANGED <<fn, args, ret, valid, exc, pows, signed>>

\* g = int(input(...)); if g <= 1 or g >= p: continue; break
MainEnterG ==
    /\ fn = "main" /\ pc = "L120"
    /\ \/ UNCHANGED vars
       \/ \E entry \in MainEntries :
             /\ loc' = [loc EXCEPT !.g = entry]
             /\ pc' = IF entry <= 1 \/ entry >= loc.p THEN "L120" ELSE "L131"
             /\ UNCHANGED <<fn, args, ret, valid, exc, pows, signed>>

\* x = int(input(...)); if x <= 1 or x >= p-1: continue; break;
\* then y = generate_keys(p, g, x)
MainEnterX ==
    /\ fn = "main" /\ pc = "L131"
    /\ \/ UNCHANGED vars
       \/ \E entry \in MainEntries :
             IF entry <= 1 \/ entry >= loc.p - 1
             THEN /\ loc' = [loc EXCEPT !.x = entry]
                  /\ UNCHANGED <<fn, pc, args, ret, valid, exc, pows, signed>>
             ELSE LET y == generate_keys(loc.p, loc.g, entry)
                  IN  IF y.exc # "none"
                      THEN /\ loc' = [loc EXCEPT !.x = entry]
                           /\ pc' = "raised"
                           /\ exc' = y.exc
                           /\ UNCHANGED <<fn, args, ret, valid, pows, signed>>
                      ELSE /\ loc' = [loc EXCEPT !.x = entry, !.y = y.val]
                           /\ pc' = "L144"
                           /\ UNCHANGED <<fn, args, ret, valid, exc, pows, signed>>

\* message = input(...)
MainEnterMessage ==
    /\ fn = "main" /\ pc = "L144"
    /\ \E message \in MainDigests :
          loc' = [loc EXCEPT !.message = message]
    /\ pc' = "L149"
    /\ UNCHANGED <<fn, args, ret, valid, exc, pows, signed>>

\* if k <= 1 or k >= p-1: continue; if extended_gcd(k, p-1)[0] != 1: continue
MainRejectsKNoGcd(k, p) == k <= 1 \/ k >= p - 1

MainRejectsK(k, p) ==
    \/ k <= 1 \/ k >= p - 1
    \/ extended_gcd(k, p - 1)[1] # 1

\* k = int(input(...)) with its two tests; an accepted k is followed by
\* r, s = sign_message(message, p, g, x, k) and
\* valid = verify_signature(message, r, s, p, g, y), and main returns
MainEnterK ==
    /\ fn = "main" /\ pc = "L149"
    /\ \/ UNCHANGED vars
       \/ \E entry \in MainEntries :
             IF MainRejectsK(entry, loc.p)
             THEN /\ loc' = [loc EXCEPT !.k = entry]
                  /\ UNCHANGED <<fn, pc, args, ret, valid, exc, pows, signed>>
             ELSE LET rs == sign_message(loc.message, loc.p, loc.g, loc.x, entry)
                      v == IF rs.exc # "none" THEN rs
                           ELSE verify_signature(loc.message, rs.val[1], rs.val[2],
                                                 loc.p, loc.g, loc.y)
                  IN  /\ args' = <<loc.message, loc.p, loc.g, loc.x, entry>>
                      /\ loc' = IF rs.exc # "none" THEN [loc EXCEPT !.k = entry]
                                ELSE [loc EXCEPT !.k = entry, !.r = rs.val[1],
                                                 !.s = rs.val[2]]
                      /\ ret' = IF rs.exc # "none" THEN <<>> ELSE rs.val
                      /\ valid' = (v.exc = "none" /\ v.val)
                      /\ exc' = v.exc
                      /\ pc' = IF v.exc # "none" THEN "raised" ELSE "returned"
                      /\ UNCHANGED <<fn, pows, signed>>

Next ==
    \/ CallExtendedGcd
    \/ CallModInverse
    \/ CallSignMessage
    \/ SignHash
    \/ SignPow
    \/ SignInverse
    \/ SignS
    \/ SignReturn
    \/ VerifyOwnSignature
    \/ VerifyOtherMessage
    \/ CallVerifySignature
    \/ CallRabinSign
    \/ VerifyOwnRabin
    \/ CallRabinVerify
    \/ CallRabinCombine
    \/ CallKeyGeneration
    \/ RunRabinMenu
    \/ MenuGenerateKeys
    \/ GetValidPrimeP
    \/ GetValidPrimeQ
    \/ MenuSign
    \/ MenuVerify
    \/ MenuExit
    \/ MenuInvalidOption
    \/ RunElGamalMain
    \/ MainEnterP
    \/ MainEnterG
    \/ MainEnterX
    \/ MainEnterMessage
    \/ MainEnterK

Spec == Init /\ [][Next]_vars

---------------------------------------------------------------------------
(* Properties. *)

Done == pc \in {"returned", "raised"}

\* the signing call being verified used a valid ElGamal key and a k coprime to p-1
ValidElGamalSigning ==
    /\ signed.fn = "sign_message"
    /\ LET p == signed.args[2]
           g == signed.args[3]
           x == signed.args[4]
           k == signed.args[5]
       IN  /\ is_prime(p)
           /\ 1 < g /\ g < p
           /\ 1 < x /\ x < p - 1
           /\ Gcd(k, p - 1) = 1

\* the signature is being verified against a message other than the signed one
OtherMessageVerified ==
    /\ fn = "verify_signature"
    /\ signed.fn = "sign_message"
    /\ args[1] # signed.args[1]

\* C1: ElGamal round trip.  Whenever sign_message has returned (r, s) for a
\* prime p, 1 < g < p, 1 < x < p-1 and gcd(k, p-1) = 1, the key derivation
\* y = generate_keys(p, g, x) = g^x mod p succeeds and
\* verify_signature(message, r, s, p, g, y) returns True.
C1_RoundTrip ==
    (ValidElGamalSigning /\ ~OtherMessageVerified) =>
        /\ fn = "verify_signature"
        /\ pc = "returned"
        /\ args = <<signed.args[1], signed.ret[1], signed.ret[2], signed.args[2],
                    signed.args[3],
                    ModExp(signed.args[3], signed.args[4], signed.args[2])>>
        /\ valid

\* the scenario p = 23, g = 5, x = 6, y = 8, k = 3, r = 10 was signed and accepted
C1_Witness ==
    /\ fn = "verify_signature" /\ pc = "returned"
    /\ signed.fn = "sign_message"
    /\ signed.args[2] = 23 /\ signed.args[3] = 5 /\ signed.args[4] = 6
    /\ signed.args[5] = 3
    /\ args[2] = 10 /\ args[6] = 8
    /\ valid

\* C2: sign_message called with a k that shares a factor with p-1 fails with
\* NotInvertibleError, returns no (r, s), and has performed no modular
\* exponentiation when it fails.
C2_FailsBeforeExponentiation ==
    (fn = "sign_message" /\ Done /\ Gcd(args[5], args[2] - 1) # 1) =>
        /\ pc = "raised"
        /\ exc = NotInvertibleError
        /\ pows = 0

\* distinct primes congruent to 3 mod 4
DistinctBlumPrimes(p, q) ==
    /\ isprime(p) /\ isprime(q)
    /\ p % 4 = 3 /\ q % 4 = 3
    /\ p # q

\* C3: for distinct Blum primes, Rabin sign either returns a value s for
\* which verify(message, s, p*q) is true or fails; a value it returned is
\* never rejected by verify.
C3_SignedValueVerifies ==
    (/\ fn = "verify" /\ Done
     /\ signed.fn = "sign"
     /\ DistinctBlumPrimes(signed.args[2], signed.args[3])
     /\ args[2] = signed.ret[1]) =>
        (pc = "returned" /\ valid)

\* C4 as stated: verify_signature returns False, without raising, for every
\* r <= 0 and every r >= p-1.
C4_RejectsOutsideHalfOpen ==
    (fn = "verify_signature" /\ Done /\ (args[2] <= 0 \/ args[2] >= args[4] - 1)) =>
        (pc = "returned" /\ ~valid)

\* C4 as amended: verify_signature returns False, without raising, for every
\* r <= 0 and every r >= p, whatever the message, s, g and y are.
C4_RejectsOutsideRange ==
    (fn = "verify_signature" /\ Done /\ (args[2] <= 0 \/ args[2] >= args[4])) =>
        (pc = "returned" /\ ~valid)

\* r = p, the first value above the accepted range, was rejected
C4_Witness ==
    /\ fn = "verify_signature" /\ pc = "returned"
    /\ args[4] >= 2 /\ args[2] = args[4]
    /\ ~valid

\* C5: verification never raises: verify_signature and verify end with a
\* boolean result for every combination of integer arguments.
C5_VerificationNeverRaises ==
    (fn \in {"verify_signature", "verify"}) => pc # "raised"

\* C6 as stated: verify_signature returns False whenever r is outside [0, p)
\* or s is outside [0, p-1), and verify returns False whenever the signature
\* is outside [0, n/2].
C6_RejectsOutOfRange ==
    /\ (/\ fn = "verify_signature" /\ Done
        /\ \/ args[2] < 0 \/ args[2] >= args[4]
           \/ args[3] < 0 \/ args[3] >= args[4] - 1) =>
          (pc = "returned" /\ ~valid)
    /\ (/\ fn = "verify" /\ Done
        /\ (args[2] < 0 \/ 2 * args[2] > args[3])) =>
          (pc = "returned" /\ ~valid)

\* C6 as amended: verify_signature returns False whenever r is outside [0, p).
C6_RejectsROutOfRange ==
    (fn = "verify_signature" /\ Done /\ (args[2] < 0 \/ args[2] >= args[4])) =>
        (pc = "returned" /\ ~valid)

\* a negative r was rejected under a modulus p >= 2
C6_Witness ==
    /\ fn = "verify_signature" /\ pc = "returned"
    /\ args[4] >= 2 /\ args[2] < 0
    /\ ~valid

\* C7: Rabin symmetry law.  verify(message, s, n) ends as
\* verify(message, n - s, n) does: the same boolean (or, for n = 0, the same
\* exception).
C7_RabinSymmetry ==
    (fn = "verify" /\ Done) =>
        LET mirror == verify(args[1], args[3] - args[2], args[3])
        IN  /\ mirror.exc = exc
            /\ pc = "returned" => mirror.val = valid

\* a signature 0 < s < n with n - s # s was accepted
C7_Witness ==
    /\ fn = "verify" /\ pc = "returned"
    /\ signed.fn = "none"
    /\ 0 < args[2] /\ args[2] < args[3]
    /\ args[3] - args[2] # args[2]
    /\ valid

\* m is a square modulo p (zero included)
IsResidue(m, p) == \E z \in 0..(p - 1) : (z * z - m) % p = 0

\* the Rabin signing call being verified used distinct Blum primes and a
\* digest that is a quadratic residue modulo both
ResidueSigning ==
    /\ DistinctBlumPrimes(args[2], args[3])
    /\ IsResidue(args[1] % (args[2] * args[3]), args[2])
    /\ IsResidue(args[1] % (args[2] * args[3]), args[3])

\* C8: for distinct Blum primes and a digest that is a quadratic residue
\* modulo both, sign returns a value s, and verify(message, s, n) and
\* verify(message, n - s, n) are both true.
C8_ResidueDigestVerifies ==
    /\ (fn = "sign" /\ Done /\ ResidueSigning) => pc = "returned"
    /\ (/\ fn = "verify" /\ Done
        /\ signed.fn = "sign"
        /\ DistinctBlumPrimes(signed.args[2], signed.args[3])
        /\ IsResidue(args[1] % args[3], signed.args[2])
        /\ IsResidue(args[1] % args[3], signed.args[3])) =>
          (pc = "returned" /\ valid)

\* the scenario p = 7, q = 11, m = 4: the complement 77 - s of the returned
\* signature s was accepted
C8_Witness ==
    /\ fn = "verify" /\ pc = "returned"
    /\ signed.fn = "sign"
    /\ signed.args[2] = 7 /\ signed.args[3] = 11
    /\ args[1] % 77 = 4
    /\ args[2] = 77 - signed.ret[1] /\ args[2] # signed.ret[1]
    /\ valid

\* C9: extended_gcd(a, b) returns (g, x, y) with a*x + b*y = g and g the
\* non-negative greatest common divisor of a and b, for all integers a, b.
C9_ExtendedGcd ==
    (fn = "extended_gcd" /\ pc = "returned") =>
        /\ args[1] * ret[2] + args[2] * ret[3] = ret[1]
        /\ ret[1] = Gcd(args[1], args[2])

\* C10: for every integer a and every m >= 1, mod_inverse(a, m) fails with
\* NotInvertibleError exactly when gcd(a, m) # 1, and otherwise returns x
\* with 0 <= x < m and (a*x) mod m = 1.
C10_ModInverse ==
    (fn = "mod_inverse" /\ Done /\ args[2] >= 1) =>
        /\ (pc = "raised" /\ exc = NotInvertibleError) <=> (Gcd(args[1], args[2]) # 1)
        /\ pc = "returned" =>
              (0 <= ret[1] /\ ret[1] < args[2] /\ (args[1] * ret[1]) % args[2] = 1)

\* C12: signatures are in canonical range.  For p prime and gcd(k, p-1) = 1
\* sign_message returns (r, s) with 0 <= r < p and 0 <= s < p-1; for distinct
\* Blum primes sign returns s with 0 <= s <= n/2 and s = min(x, n - x) for
\* the root x it combined.
C12_CanonicalRange ==
    /\ (/\ fn = "sign_message" /\ pc = "returned"
        /\ is_prime(args[2]) /\ Gcd(args[5], args[2] - 1) = 1) =>
          /\ 0 <= ret[1] /\ ret[1] < args[2]
          /\ 0 <= ret[2] /\ ret[2] < args[2] - 1
    /\ (fn = "sign" /\ pc = "returned" /\ DistinctBlumPrimes(args[2], args[3])) =>
          /\ 0 <= ret[1] /\ 2 * ret[1] <= args[2] * args[3]
          /\ ret[1] = Min(loc.x, args[2] * args[3] - loc.x)

\* sign combined a root x above n/2 for p = 7, q = 11 and returned n - x
C12_Witness ==
    /\ fn = "sign" /\ pc = "returned"
    /\ args[2] = 7 /\ args[3] = 11
    /\ 2 * loc.x > 77
    /\ ret[1] = 77 - loc.x

\* the value sign returned for distinct Blum primes has been verified against
\* the signed message
OwnRabinVerified ==
    /\ fn = "verify" /\ pc = "returned"
    /\ signed.fn = "sign"
    /\ DistinctBlumPrimes(signed.args[2], signed.args[3])
    /\ args[2] = signed.ret[1]

\* C13 as stated: for distinct Blum primes and the digest m in [0, n), verify
\* accepts the value sign returned exactly when m is a quadratic residue (or
\* zero) modulo both primes or a non-residue modulo both.
C13_AcceptedIffSameResiduosity ==
    OwnRabinVerified =>
        LET m == args[1] % args[3]
        IN  valid <=> (IsResidue(m, signed.args[2]) <=> IsResidue(m, signed.args[3]))

\* C13 as amended: verify accepts the value sign returned exactly when m is
\* divisible by p or by q, or is a quadratic residue modulo both primes, or a
\* non-residue modulo both.
C13_AcceptedIffZeroOrSameResiduosity ==
    OwnRabinVerified =>
        LET m == args[1] % args[3]
            p == signed.args[2]
            q == signed.args[3]
        IN  valid <=> \/ m % p = 0
                      \/ m % q = 0
                      \/ IsResidue(m, p) <=> IsResidue(m, q)

\* a digest divisible by p and a non-residue modulo q was signed and accepted
C13_Witness ==
    /\ OwnRabinVerified
    /\ (args[1] % args[3]) % signed.args[2] = 0
    /\ ~IsResidue(args[1] % args[3], signed.args[3])
    /\ valid

\* C14: the combination in sign.  For distinct primes p, q and every pair
\* r_p in [0, p), r_q in [0, q), x = (r_q + q * ((inv_q * (r_p - r_q)) mod p))
\* mod n with inv_q = mod_inverse(q, p) is computed without failure and
\* satisfies 0 <= x < n, x mod p = r_p and x mod q = r_q; the x of every
\* completed sign call is the combination of its r_p and r_q in this sense.
C14_CrtCombination ==
    /\ (/\ fn = "RabinCombine" /\ Done
        /\ isprime(args[3]) /\ isprime(args[4]) /\ args[3] # args[4]
        /\ 0 <= args[1] /\ args[1] < args[3]
        /\ 0 <= args[2] /\ args[2] < args[4]) =>
          /\ pc = "returned"
          /\ 0 <= ret[1] /\ ret[1] < args[3] * args[4]
          /\ ret[1] % args[3] = args[1]
          /\ ret[1] % args[4] = args[2]
    /\ (/\ fn = "sign" /\ pc = "returned"
        /\ isprime(args[2]) /\ isprime(args[3]) /\ args[2] # args[3]) =>
          /\ 0 <= loc.x /\ loc.x < loc.n
          /\ loc.x % args[2] = loc.r_p
          /\ loc.x % args[3] = loc.r_q

\* r_p = 3 and r_q = 5 were combined to 38 for p = 7, q = 11
C14_Witness ==
    /\ fn = "RabinCombine" /\ pc = "returned"
    /\ args = <<3, 5, 7, 11>>
    /\ ret = <<38>>

\* g generates the multiplicative group modulo the prime p
IsGenerator(g, p) == {ModExp(g, i, p) : i \in 1..(p - 1)} = 1..(p - 1)

\* C15: ElGamal message binding (a message stands for its digest).  For p prime, g a generator modulo p,
\* 1 < x < p-1 and k coprime to p-1, the pair sign_message returned for the
\* digest h is accepted by verify_signature for the digest h' if and only if
\* h and h' are congruent modulo p-1.
C15_MessageBinding ==
    (/\ fn = "verify_signature" /\ Done
     /\ ValidElGamalSigning
     /\ IsGenerator(signed.args[3], signed.args[2])) =>
        /\ pc = "returned"
        /\ valid <=> (args[1] - signed.args[1]) % (signed.args[2] - 1) = 0

\* in the scenario p = 23 with the generator g = 5, a signature was accepted
\* for another digest congruent to the signed one modulo 22
C15_Witness ==
    /\ fn = "verify_signature" /\ pc = "returned"
    /\ ValidElGamalSigning
    /\ signed.args[2] = 23 /\ signed.args[3] = 5
    /\ IsGenerator(5, 23)
    /\ args[1] = signed.args[1] + 22
    /\ valid

\* in the same scenario a signature was rejected for a digest that is not
\* congruent to the signed one
C15_RejectWitness ==
    /\ fn = "verify_signature" /\ pc = "returned"
    /\ ValidElGamalSigning
    /\ signed.args[2] = 23 /\ signed.args[3] = 5
    /\ args[1] = signed.args[1] + 1
    /\ ~valid

\* the triple (n, p, q) is a Rabin key: p and q are distinct primes congruent
\* to 3 modulo 4 and n is their product
RabinKeyInvariant(n, p, q) ==
    /\ isprime(p) /\ isprime(q)
    /\ p % 4 = 3 /\ q % 4 = 3
    /\ p # q
    /\ n = p * q

\* C11: every key triple (n, p, q) that key_generation returns, whatever the
\* random draws, and every triple the menu binds from key_generation_manual,
\* whatever the user enters, has p and q prime, p mod 4 = 3, q mod 4 = 3,
\* p # q and n = p * q.
C11_KeyInvariants ==
    /\ (fn = "key_generation" /\ pc = "returned") =>
          RabinKeyInvariant(ret[1], ret[2], ret[3])
    /\ (fn = "rabin_main" /\ loc.defined) =>
          RabinKeyInvariant(loc.n, loc.p, loc.q)

\* C16: the menu loop.  sign and verify are never called before a key
\* generation has completed; once keys exist, n = p * q holds for the stored
\* values, with p and q the primes the most recent key generation returned;
\* sign is called with these p and q and verify with this n.
C16_MenuKeys ==
    (fn = "rabin_main") =>
        /\ loc.last \in {"sign", "verify"} => loc.defined
        /\ loc.defined =>
              /\ loc.n = loc.p * loc.q
              /\ loc.gen = <<loc.p, loc.q>>
        /\ ~loc.defined => loc.last = "none"
        /\ loc.last = "keygen" => ret = <<loc.n, loc.p, loc.q>>
        /\ loc.last = "sign" => (args[2] = loc.p /\ args[3] = loc.q)
        /\ loc.last = "verify" => args[3] = loc.p * loc.q

\* with the keys 7, 11 generated, a signature option 2 printed for a non-zero
\* digest was entered in option 3 and accepted under the modulus 77
C16_Witness ==
    /\ fn = "rabin_main" /\ pc = "L82"
    /\ loc.last = "verify"
    /\ loc.gen = <<7, 11>>
    /\ args[3] = 77
    /\ args[1] # 0 /\ args[2] > MaxInt
    /\ valid

\* the statements of main that follow the loop for p, for g, for x and for k
AfterP == {"L120", "L131", "L144", "L149", "returned", "raised"}
AfterG == {"L131", "L144", "L149", "returned", "raised"}
AfterX == {"L144", "L149", "returned", "raised"}
AfterK == {"returned", "raised"}

\* C17: main of elgamal.py guards the preconditions.  For every sequence of
\* entries, main leaves the loop for p only with p prime, the loop for g only
\* with 1 < g < p, the loop for x only with 1 < x < p-1 and the loop for k
\* only with 1 < k < p-1 and gcd(k, p-1) = 1; sign_message is called with
\* exactly these values, neither it nor any other call of main raises, and
\* the final verify_signature reports the signature as valid.
C17_MainGuardsPreconditions ==
    (fn = "main") =>
        /\ pc \in AfterP => isprime(loc.p)
        /\ pc \in AfterG => (1 < loc.g /\ loc.g < loc.p)
        /\ pc \in AfterX => (1 < loc.x /\ loc.x < loc.p - 1)
        /\ pc \in AfterK =>
              /\ 1 < loc.k /\ loc.k < loc.p - 1
              /\ Gcd(loc.k, loc.p - 1) = 1
              /\ args = <<loc.message, loc.p, loc.g, loc.x, loc.k>>
        /\ pc # "raised"
        /\ pc = "returned" => (valid /\ ret = <<loc.r, loc.s>>)

\* main signed with p = 11, g = 2, x = 3, k = 7 and reported the signature
\* as valid
C17_Witness ==
    /\ fn = "main" /\ pc = "returned"
    /\ loc.p = 11 /\ loc.g = 2 /\ loc.x = 3 /\ loc.k = 7
    /\ valid

=============================================================================
